---- MODULE Spec2Model ----
(***************************************************************************)
(* A model of src/CSV_geolocator.py: the CSVGeolocator run (load the cache, *)
(* geolocate every row of the input CSV, save the cache in the finally     *)
(* block) and of _geolocate's candidate generation and resolution loop.    *)
(*                                                                         *)
(* Text (column values, snippets, composite addresses) is a sequence of    *)
(* one-character strings, so that strip, lower and ", ".join are computed. *)
(* A float is the string of its digits, and float('nan') is "nan".  The    *)
(* warnings string is kept as the sequence of the pieces `+=` appended.    *)
(***************************************************************************)
EXTENDS Integers, Sequences, FiniteSets, TLC

VARIABLES
    disk,                \* the content of JSON_CACHE_FILE
    discovered_addrs,    \* self.discovered_addrs
    no_result_list,      \* self.no_result_list
    search_depth,        \* self.search_options["search_depth"]
    pc,                  \* where the run stands
    addr_snips,          \* _geolocate's argument
    composed_positions,  \* the column positions each composed address was built from
    composed_addresses,  \* _geolocate's composed_addresses, after the join
    row,                 \* the row geolocate_csv is working on
    attempt_index,       \* the loop index of line 128
    warnings,            \* _geolocate's warnings
    ret,                 \* what _geolocate returned last in this run
    out_rows,            \* what writer.writerow wrote to out_csv in this run
    raised,              \* the exception that ended the run, "none" if none did
    saves,               \* how often this run wrote the cache file
    queried,             \* every address the provider answered, over all runs
    runs,                \* runs started
    rows_read,           \* rows read over all runs
    answers,             \* answers[i] is what the provider returned for queried[i]
    in_rows,             \* the rows the reader yielded in this run
    first_ret,           \* per snippet list, how its first _geolocate call ended
    queried_before       \* how many answers the provider had given when this run began

vars == <<disk, discovered_addrs, no_result_list, search_depth, pc, row, addr_snips,
          composed_positions, composed_addresses, attempt_index, warnings,
          ret, out_rows, raised, saves, queried, runs, rows_read,
          answers, in_rows, first_ret, queried_before>>

----------------------------------------------------------------------------
(* Bounds *)

MaxRuns == 2
MaxRows == 2
MaxDepth == 3
MaxSnips == 3

----------------------------------------------------------------------------
(* Sequences and text *)

Range(s) == {s[i] : i \in 1..Len(s)}

Last(s) == s[Len(s)]

Min(S) == CHOOSE x \in S : \A y \in S : x <= y

Max(S) == CHOOSE x \in S : \A y \in S : x >= y

\* str.strip(): leading and trailing whitespace removed
IsSpace(c) == c = " "

RECURSIVE LStrip(_)
LStrip(t) == IF t # <<>> /\ IsSpace(Head(t)) THEN LStrip(Tail(t)) ELSE t

RECURSIVE RStrip(_)
RStrip(t) ==
    IF t # <<>> /\ IsSpace(t[Len(t)]) THEN RStrip(SubSeq(t, 1, Len(t) - 1)) ELSE t

strip(t) == RStrip(LStrip(t))

\* str.lower(), on the letters the input rows use
LowerChar(c) ==
    CASE c = "A" -> "a"
      [] c = "B" -> "b"
      [] c = "C" -> "c"
      [] c = "X" -> "x"
      [] OTHER -> c

lower(t) == [i \in 1..Len(t) |-> LowerChar(t[i])]

\* sep.join(parts)
RECURSIVE join(_, _)
join(sep, parts) ==
    IF parts = <<>> THEN <<>>
    ELSE IF Len(parts) = 1 THEN parts[1]
    ELSE parts[1] \o sep \o join(sep, Tail(parts))

Sep == <<",", " ">>

----------------------------------------------------------------------------
(* Class constants and configuration *)

EMPTY_COLUMN_CHARACTERS == {<<"-">>, <<" ">>, <<>>}

csv_column_search_order == <<"city3", "city2", "city1">>

NaN == "nan"

isnan(x) == x = NaN

----------------------------------------------------------------------------
(* Candidate generation: lines 120-125 of _geolocate *)

\* list.index(x): the 0-based place of the first element equal to x
index(snips, x) == Min({i \in 1..Len(snips) : snips[i] = x}) - 1

\* itertools.combinations over the places lo..n, r at a time: the tuples of
\* places in lexicographic order (combinations treats elements as distinct by
\* place, not by value)
RECURSIVE CombinationsFrom(_, _, _)
CombinationsFrom(lo, n, r) ==
    IF r = 0 THEN << <<>> >>
    ELSE IF n - lo + 1 < r THEN <<>>
    ELSE LET with == CombinationsFrom(lo + 1, n, r - 1)
             without == CombinationsFrom(lo + 1, n, r)
         IN  [i \in 1..Len(with) |-> <<lo>> \o with[i]] \o without

combinations(n, r) == CombinationsFrom(1, n, r)

\* the tuple of snippets combinations yields for the places p
SnipsAt(snips, p) == [k \in 1..Len(p) |-> snips[p[k]]]

\* a loop that takes the snippets one at a time at every depth
RECURSIVE AccumulateSingles(_, _, _)
AccumulateSingles(n, depth, stop) ==
    IF depth >= stop THEN <<>>
    ELSE combinations(n, 1) \o AccumulateSingles(n, depth + 1, stop)

\* a loop that stops one depth early
RECURSIVE AccumulateShort(_, _, _)
AccumulateShort(n, depth, stop) ==
    IF depth >= stop - 1 THEN <<>>
    ELSE combinations(n, depth + 1) \o AccumulateShort(n, depth + 1, stop)

\* lines 120-121: composed_addresses += combinations(addr_snips, depth + 1)
RECURSIVE Accumulate(_, _, _)
Accumulate(n, depth, stop) ==
    IF depth >= stop THEN <<>>
    ELSE combinations(n, depth + 1) \o Accumulate(n, depth + 1, stop)

\* lines 122-123: the sort key of one tuple, computed from its snippets
SortKey(snips, p) ==
    LET idx == {index(snips, x) : x \in Range(SnipsAt(snips, p))}
    IN  <<Min(idx), Max(idx)>>

\* Python's comparison of two 2-tuples
KeyLess(k1, k2) == k1[1] < k2[1] \/ (k1[1] = k2[1] /\ k1[2] < k2[2])

\* list.sort is stable: an element goes after every element whose key is not
\* greater than its own
RECURSIVE InsertSorted(_, _, _)
InsertSorted(snips, sorted, p) ==
    IF sorted = <<>> THEN <<p>>
    ELSE IF KeyLess(SortKey(snips, p), SortKey(snips, Head(sorted)))
         THEN <<p>> \o sorted
         ELSE <<Head(sorted)>> \o InsertSorted(snips, Tail(sorted), p)

RECURSIVE SortFrom(_, _, _)
SortFrom(snips, sorted, rest) ==
    IF rest = <<>> THEN sorted
    ELSE SortFrom(snips, InsertSorted(snips, sorted, Head(rest)), Tail(rest))

\* lines 120-123: the sorted tuples, each as the places of its snippets
ComposedPositions(snips, depth) ==
    SortFrom(snips, <<>>, Accumulate(Len(snips), 0, depth))

\* line 125: ", ".join of every tuple
ComposedAddresses(snips, depth) ==
    LET ps == ComposedPositions(snips, depth)
    IN  [i \in 1..Len(ps) |-> join(Sep, SnipsAt(snips, ps[i]))]

----------------------------------------------------------------------------
(* The cache file: lines 37-45 and 53-57 of __init__ *)

EmptyDict == <<>>

DictSet(d, k, v) == [x \in DOMAIN d \cup {k} |-> IF x = k THEN v ELSE d[x]]

MissingFile == [kind |-> "missing"]

\* json.dump of {"discovered_addrs": ..., "no_result_list": ...}
JsonDump(d, n) ==
    [kind |-> "json", data |-> [discovered_addrs |-> d, no_result_list |-> n]]

\* an except clause that resets only no_result_list
LoadCacheKeepsFirst(file) ==
    IF file.kind = "json" /\ "discovered_addrs" \in DOMAIN file.data
    THEN [discovered_addrs |-> file.data["discovered_addrs"],
          no_result_list |-> IF "no_result_list" \in DOMAIN file.data
                             THEN file.data["no_result_list"] ELSE <<>>]
    ELSE [discovered_addrs |-> EmptyDict, no_result_list |-> <<>>]

\* lines 38-45: any failure of open, json.load or either subscript leaves both
\* attributes empty
LoadCache(file) ==
    IF /\ file.kind = "json"
       /\ "discovered_addrs" \in DOMAIN file.data
       /\ "no_result_list" \in DOMAIN file.data
    THEN [discovered_addrs |-> file.data["discovered_addrs"],
          no_result_list |-> file.data["no_result_list"]]
    ELSE [discovered_addrs |-> EmptyDict, no_result_list |-> <<>>]

----------------------------------------------------------------------------
(* The input rows and the provider's answers *)

RowABC == [city3 |-> <<" ", "A", " ">>, city2 |-> <<"b">>, city1 |-> <<"C">>]
RowEmpty == [city3 |-> <<"-">>, city2 |-> <<" ">>, city1 |-> <<>>]
RowX == [city3 |-> <<"X">>, city2 |-> <<" ", "-">>, city1 |-> <<" ", " ">>]
RowABA == [city3 |-> <<"a">>, city2 |-> <<"B">>, city1 |-> <<"a", " ">>]
RowComma == [city3 |-> <<"a">>, city2 |-> <<"b">>, city1 |-> <<"a", ",", " ", "b">>]
RowShort == [city3 |-> <<"a">>]

InputRows == {RowABC, RowEmpty, RowX, RowABA, RowComma, RowShort}

Location1 == [lat |-> "48.8566", lng |-> "2.3522"]
Location2 == [lat |-> "40.7128", lng |-> "-74.006"]

\* what gmaps_client.geocode returns: a list of results, possibly empty
GeocodeResults == {<<>>, <<Location1>>, <<Location2, Location1>>}

----------------------------------------------------------------------------
(* geolocate_csv: lines 66-86 *)

\* lines 70-75
RECURSIVE ExtractFrom(_, _)
ExtractFrom(r, keys) ==
    IF keys = <<>> THEN <<>>
    ELSE LET addr_snip == strip(r[Head(keys)])
         IN  IF addr_snip \notin EMPTY_COLUMN_CHARACTERS
             THEN <<lower(addr_snip)>> \o ExtractFrom(r, Tail(keys))
             ELSE ExtractFrom(r, Tail(keys))

ExtractSnips(r) == ExtractFrom(r, csv_column_search_order)

\* line 73 raises KeyError when a configured column is not in the row
HasColumns(r) == Range(csv_column_search_order) \subseteq DOMAIN r

\* lines 78-85
OutRow(r, lat, lng, w) ==
    IF isnan(lat) \/ isnan(lng)
    THEN [row |-> r, lat |-> "-", lng |-> "-", warnings |-> w]
    ELSE [row |-> r, lat |-> lat, lng |-> lng, warnings |-> w]

----------------------------------------------------------------------------
(* The warnings string, as the pieces appended to it *)

Piece(fmt, arg) == [fmt |-> fmt, arg |-> arg]

FallbackWarning == Piece("WARNING: Using fallbacks, loss of fidelity!", <<>>)

NoResultWarning(addr) == Piece("No result found for '{}'; ", addr)

SearchFailed == Piece("Search Failed!;", <<>>)

\* line 131
UsesFallback(i, snips) == i > 2 ^ (Len(snips) - 1)

----------------------------------------------------------------------------
(* The run *)

InitialFiles == {MissingFile}

Init ==
    /\ disk \in InitialFiles
    /\ discovered_addrs = EmptyDict
    /\ no_result_list = <<>>
    /\ search_depth \in 1..MaxDepth
    /\ pc = "start"
    /\ row = <<>>
    /\ addr_snips = <<>>
    /\ composed_positions = <<>>
    /\ composed_addresses = <<>>
    /\ attempt_index = 0
    /\ warnings = <<>>
    /\ ret = <<>>
    /\ out_rows = <<>>
    /\ raised = "none"
    /\ saves = 0
    /\ queried = <<>>
    /\ runs = 0
    /\ rows_read = 0
    /\ answers = <<>>
    /\ in_rows = <<>>
    /\ first_ret = EmptyDict
    /\ queried_before = 0

rowLocals == <<row, addr_snips, composed_positions, composed_addresses,
               attempt_index, warnings>>

cache == <<discovered_addrs, no_result_list>>

\* a save that is skipped when geolocate_csv raises
SaveOnSuccess(exc) ==
    /\ disk' = IF exc = "none" THEN JsonDump(discovered_addrs, no_result_list)
                ELSE disk
    /\ saves' = IF exc = "none" THEN saves + 1 ELSE saves
    /\ raised' = exc
    /\ pc' = "exited"

\* lines 53-57: the finally block, entered when geolocate_csv returns or
\* raises exc
Finally(exc) ==
    /\ disk' = JsonDump(discovered_addrs, no_result_list)
    /\ saves' = saves + 1
    /\ raised' = exc
    /\ pc' = "exited"

\* how a _geolocate call that raised is remembered
Raised == <<"raised", "raised">>

\* the first outcome seen for a snippet list is kept
RecordFirst(f, snips, outcome) ==
    IF snips \in DOMAIN f THEN f ELSE DictSet(f, snips, outcome)

\* line 77's call returns: lines 78-86 write the row and the loop of line 66
\* goes on
Return(lat, lng, w) ==
    /\ ret' = <<lat, lng, w>>
    /\ first_ret' = RecordFirst(first_ret, addr_snips, <<lat, lng>>)
    /\ out_rows' = Append(out_rows, OutRow(row, lat, lng, w))
    /\ pc' = "rows"
    /\ UNCHANGED <<disk, saves, raised>>

attempted_address == composed_addresses[attempt_index + 1]

\* lines 34-48 and 60-65: a new process builds the geolocator
Construct ==
    /\ pc \in {"start", "exited"}
    /\ runs < MaxRuns
    /\ runs' = runs + 1
    /\ discovered_addrs' = LoadCache(disk).discovered_addrs
    /\ no_result_list' = LoadCache(disk).no_result_list
    /\ ret' = <<>>
    /\ out_rows' = <<>>
    /\ raised' = "none"
    /\ saves' = 0
    /\ pc' = "rows"
    /\ row' = <<>>
    /\ addr_snips' = <<>>
    /\ composed_positions' = <<>>
    /\ composed_addresses' = <<>>
    /\ attempt_index' = 0
    /\ warnings' = <<>>
    /\ UNCHANGED <<disk, search_depth, queried, rows_read>>
    /\ in_rows' = <<>>
    /\ UNCHANGED <<answers, first_ret>>
    /\ queried_before' = Len(queried)

\* lines 66-77 and 114-126: the reader yields a row, its snippets are
\* extracted and _geolocate composes the addresses to try
ReadRow(r) ==
    /\ pc = "rows"
    /\ rows_read < MaxRows
    /\ HasColumns(r)
    /\ rows_read' = rows_read + 1
    /\ row' = r
    /\ addr_snips' = ExtractSnips(r)
    /\ composed_positions' = ComposedPositions(ExtractSnips(r), search_depth)
    /\ composed_addresses' = ComposedAddresses(ExtractSnips(r), search_depth)
    /\ attempt_index' = 0
    /\ warnings' = <<>>
    /\ pc' = "loop"
    /\ UNCHANGED <<disk, cache, search_depth, ret, out_rows, raised, saves, queried, runs>>
    /\ in_rows' = Append(in_rows, r)
    /\ UNCHANGED <<answers, first_ret>>
    /\ UNCHANGED queried_before

\* line 73: row[key] raises KeyError
RowMissingColumn(r) ==
    /\ pc = "rows"
    /\ rows_read < MaxRows
    /\ ~HasColumns(r)
    /\ rows_read' = rows_read + 1
    /\ row' = r
    /\ Finally("KeyError")
    /\ UNCHANGED <<cache, search_depth, addr_snips, composed_positions,
                   composed_addresses, attempt_index, warnings, ret, out_rows,
                   queried, runs>>
    /\ in_rows' = Append(in_rows, r)
    /\ UNCHANGED <<answers, first_ret>>
    /\ UNCHANGED queried_before

\* line 66: the reader is exhausted, geolocate_csv returns
EndOfInput ==
    /\ pc = "rows"
    /\ Finally("none")
    /\ UNCHANGED <<cache, search_depth, rowLocals, ret, out_rows, queried, runs,
                   rows_read>>
    /\ UNCHANGED <<answers, in_rows, first_ret>>
    /\ UNCHANGED queried_before

\* lines 128-133: the next candidate, and the fallback warning
LoopHead ==
    /\ pc = "loop"
    /\ attempt_index < Len(composed_addresses)
    /\ warnings' = IF UsesFallback(attempt_index, addr_snips)
                   THEN Append(warnings, FallbackWarning)
                   ELSE warnings
    /\ pc' = "lookup"
    /\ UNCHANGED <<disk, cache, search_depth, row, addr_snips, composed_positions,
                   composed_addresses, attempt_index, ret, out_rows, raised, saves,
                   queried, runs, rows_read>>
    /\ UNCHANGED <<answers, in_rows, first_ret>>
    /\ UNCHANGED queried_before

\* a lookup that never finds a cached success
NeverDiscovered(addr) == FALSE

\* line 136
IsDiscovered(addr) == addr \in DOMAIN discovered_addrs

\* a lookup that never finds a known failure
NeverKnownFailure(addr) == FALSE

\* line 141
IsKnownFailure(addr) == addr \in Range(no_result_list)

\* a cache hit that unpacks the pair the wrong way round
CacheHitSwapped ==
    /\ pc = "lookup"
    /\ IsDiscovered(attempted_address)
    /\ Return(discovered_addrs[attempted_address][2],
              discovered_addrs[attempted_address][1], warnings)
    /\ UNCHANGED <<cache, search_depth, rowLocals, queried, runs, rows_read>>
    /\ UNCHANGED <<answers, in_rows>>
    /\ UNCHANGED queried_before

\* lines 136-138
CacheHit ==
    /\ pc = "lookup"
    /\ IsDiscovered(attempted_address)
    /\ Return(discovered_addrs[attempted_address][1],
              discovered_addrs[attempted_address][2], warnings)
    /\ UNCHANGED <<cache, search_depth, rowLocals, queried, runs, rows_read>>
    /\ UNCHANGED <<answers, in_rows>>
    /\ UNCHANGED queried_before

\* a skip that still reports the candidate
KnownFailureWarns ==
    /\ pc = "lookup"
    /\ ~IsDiscovered(attempted_address)
    /\ IsKnownFailure(attempted_address)
    /\ warnings' = Append(warnings, NoResultWarning(attempted_address))
    /\ attempt_index' = attempt_index + 1
    /\ pc' = "loop"
    /\ UNCHANGED <<disk, cache, search_depth, row, addr_snips, composed_positions,
                   composed_addresses, ret, out_rows, raised, saves,
                   queried, runs, rows_read>>
    /\ UNCHANGED <<answers, in_rows, first_ret>>
    /\ UNCHANGED queried_before

\* lines 141-142
KnownFailure ==
    /\ pc = "lookup"
    /\ ~IsDiscovered(attempted_address)
    /\ IsKnownFailure(attempted_address)
    /\ attempt_index' = attempt_index + 1
    /\ pc' = "loop"
    /\ UNCHANGED <<disk, cache, search_depth, row, addr_snips, composed_positions,
                   composed_addresses, warnings, ret, out_rows, raised, saves,
                   queried, runs, rows_read>>
    /\ UNCHANGED <<answers, in_rows, first_ret>>
    /\ UNCHANGED queried_before

\* a success that takes the last result of the list
ProviderFoundLast(geocode_result) ==
    /\ pc = "lookup"
    /\ ~IsDiscovered(attempted_address)
    /\ ~IsKnownFailure(attempted_address)
    /\ geocode_result # <<>>
    /\ queried' = Append(queried, attempted_address)
    /\ LET location == geocode_result[Len(geocode_result)]
       IN  /\ discovered_addrs' = DictSet(discovered_addrs, attempted_address,
                                          <<location.lat, location.lng>>)
           /\ Return(location.lat, location.lng, warnings)
    /\ UNCHANGED <<no_result_list, search_depth, rowLocals, runs, rows_read>>
    /\ answers' = Append(answers, geocode_result)
    /\ UNCHANGED in_rows
    /\ UNCHANGED queried_before

\* lines 156-165: the provider returns a non-empty list
ProviderFound(geocode_result) ==
    /\ pc = "lookup"
    /\ ~IsDiscovered(attempted_address)
    /\ ~IsKnownFailure(attempted_address)
    /\ geocode_result # <<>>
    /\ queried' = Append(queried, attempted_address)
    /\ LET location == geocode_result[1]
       IN  /\ discovered_addrs' = DictSet(discovered_addrs, attempted_address,
                                          <<location.lat, location.lng>>)
           /\ Return(location.lat, location.lng, warnings)
    /\ UNCHANGED <<no_result_list, search_depth, rowLocals, runs, rows_read>>
    /\ answers' = Append(answers, geocode_result)
    /\ UNCHANGED in_rows
    /\ UNCHANGED queried_before

\* an empty answer that adds nothing to the warning
NoResultSilent(geocode_result) ==
    /\ pc = "lookup"
    /\ ~IsDiscovered(attempted_address)
    /\ ~IsKnownFailure(attempted_address)
    /\ geocode_result = <<>>
    /\ queried' = Append(queried, attempted_address)
    /\ no_result_list' = Append(no_result_list, attempted_address)
    /\ attempt_index' = attempt_index + 1
    /\ pc' = "loop"
    /\ UNCHANGED <<disk, discovered_addrs, search_depth, row, addr_snips,
                   composed_positions, composed_addresses, warnings, ret,
                   out_rows, raised, saves, runs, rows_read>>
    /\ answers' = Append(answers, geocode_result)
    /\ UNCHANGED <<in_rows, first_ret>>
    /\ UNCHANGED queried_before

\* an empty answer that is not recorded
NoResultForgotten(geocode_result) ==
    /\ pc = "lookup"
    /\ ~IsDiscovered(attempted_address)
    /\ ~IsKnownFailure(attempted_address)
    /\ geocode_result = <<>>
    /\ queried' = Append(queried, attempted_address)
    /\ warnings' = Append(warnings, NoResultWarning(attempted_address))
    /\ attempt_index' = attempt_index + 1
    /\ pc' = "loop"
    /\ UNCHANGED <<disk, cache, search_depth, row, addr_snips,
                   composed_positions, composed_addresses, ret, out_rows, raised,
                   saves, runs, rows_read>>
    /\ answers' = Append(answers, geocode_result)
    /\ UNCHANGED <<in_rows, first_ret>>
    /\ UNCHANGED queried_before

\* lines 156-159 and 166-168: the provider returns an empty list
ProviderNoResult(geocode_result) ==
    /\ pc = "lookup"
    /\ ~IsDiscovered(attempted_address)
    /\ ~IsKnownFailure(attempted_address)
    /\ geocode_result = <<>>
    /\ queried' = Append(queried, attempted_address)
    /\ warnings' = Append(warnings, NoResultWarning(attempted_address))
    /\ no_result_list' = Append(no_result_list, attempted_address)
    /\ attempt_index' = attempt_index + 1
    /\ pc' = "loop"
    /\ UNCHANGED <<disk, discovered_addrs, search_depth, row, addr_snips,
                   composed_positions, composed_addresses, ret, out_rows, raised,
                   saves, runs, rows_read>>
    /\ answers' = Append(answers, geocode_result)
    /\ UNCHANGED <<in_rows, first_ret>>
    /\ UNCHANGED queried_before

\* line 156: the provider call raises (transport failure, API error)
ProviderRaises ==
    /\ pc = "lookup"
    /\ ~IsDiscovered(attempted_address)
    /\ ~IsKnownFailure(attempted_address)
    /\ Finally("ProviderError")
    /\ UNCHANGED <<cache, search_depth, rowLocals, ret, out_rows, queried, runs,
                   rows_read>>
    /\ UNCHANGED <<answers, in_rows, first_ret>>
    /\ UNCHANGED queried_before

\* lines 170-172 after a loop that ran: attempted_address is the last candidate
Exhausted ==
    /\ pc = "loop"
    /\ attempt_index = Len(composed_addresses)
    /\ composed_addresses # <<>>
    /\ warnings' = Append(warnings, SearchFailed)
    /\ no_result_list' = Append(no_result_list, Last(composed_addresses))
    /\ Return(NaN, NaN, Append(warnings, SearchFailed))
    /\ UNCHANGED <<discovered_addrs, search_depth, row, addr_snips,
                   composed_positions, composed_addresses, attempt_index,
                   queried, runs, rows_read>>
    /\ UNCHANGED <<answers, in_rows>>
    /\ UNCHANGED queried_before

\* lines 170-171 after a loop that never ran: attempted_address was never
\* bound, so line 171 raises UnboundLocalError
ExhaustedUnbound ==
    /\ pc = "loop"
    /\ attempt_index = Len(composed_addresses)
    /\ composed_addresses = <<>>
    /\ warnings' = Append(warnings, SearchFailed)
    /\ Finally("UnboundLocalError")
    /\ UNCHANGED <<cache, search_depth, row, addr_snips, composed_positions,
                   composed_addresses, attempt_index, ret, out_rows, queried, runs,
                   rows_read>>
    /\ first_ret' = RecordFirst(first_ret, addr_snips, Raised)
    /\ UNCHANGED <<answers, in_rows>>
    /\ UNCHANGED queried_before

Next ==
    \/ Construct
    \/ \E r \in InputRows : ReadRow(r)
    \/ \E r \in InputRows : RowMissingColumn(r)
    \/ EndOfInput
    \/ LoopHead
    \/ CacheHit
    \/ KnownFailure
    \/ \E g \in GeocodeResults : ProviderFound(g)
    \/ \E g \in GeocodeResults : ProviderNoResult(g)
    \/ ProviderRaises
    \/ Exhausted
    \/ ExhaustedUnbound

Spec == Init /\ [][Next]_vars

\* the run with a provider that always returns a result list
NextReturns ==
    \/ Construct
    \/ \E r \in InputRows : ReadRow(r)
    \/ \E r \in InputRows : RowMissingColumn(r)
    \/ EndOfInput
    \/ LoopHead
    \/ CacheHit
    \/ KnownFailure
    \/ \E g \in GeocodeResults : ProviderFound(g)
    \/ \E g \in GeocodeResults : ProviderNoResult(g)
    \/ Exhausted
    \/ ExhaustedUnbound

SpecReturns == Init /\ [][NextReturns]_vars

----------------------------------------------------------------------------
(* Candidate generation alone, over every snippet list up to MaxSnips *)

SnippetTexts == {<<"a">>, <<"b">>, <<"c">>, <<"a", ",", " ", "b">>}

SnippetLists == UNION {[1..k -> SnippetTexts] : k \in 0..MaxSnips}

InitGen ==
    /\ disk = MissingFile
    /\ discovered_addrs = EmptyDict
    /\ no_result_list = <<>>
    /\ search_depth \in 1..MaxDepth
    /\ pc = "gen"
    /\ row = <<>>
    /\ addr_snips \in SnippetLists
    /\ composed_positions = <<>>
    /\ composed_addresses = <<>>
    /\ attempt_index = 0
    /\ warnings = <<>>
    /\ ret = <<>>
    /\ out_rows = <<>>
    /\ raised = "none"
    /\ saves = 0
    /\ queried = <<>>
    /\ runs = 0
    /\ rows_read = 0
    /\ answers = <<>>
    /\ in_rows = <<>>
    /\ first_ret = EmptyDict
    /\ queried_before = 0

\* lines 114-126 on the snippet list drawn
Compose ==
    /\ pc = "gen"
    /\ composed_positions' = ComposedPositions(addr_snips, search_depth)
    /\ composed_addresses' = ComposedAddresses(addr_snips, search_depth)
    /\ pc' = "composed"
    /\ UNCHANGED <<disk, cache, search_depth, row, addr_snips, attempt_index,
                   warnings, ret, out_rows, raised, saves, queried, runs,
                   rows_read>>
    /\ UNCHANGED <<answers, in_rows, first_ret>>
    /\ UNCHANGED queried_before

NextGen == Compose

SpecGen == InitGen /\ [][NextGen]_vars

----------------------------------------------------------------------------
(* Helpers of the properties *)

Count(s, x) == Cardinality({i \in 1..Len(s) : s[i] = x})

\* the non-empty sets of places of at most d of n snippets
Subsets(n, d) == {P \in SUBSET (1..n) : P # {} /\ Cardinality(P) <= d}

IsIncreasing(p) == \A i \in 1..(Len(p) - 1) : p[i] < p[i + 1]

\* the key the ordering rule is stated with: smallest and largest place
PlaceKey(p) == <<Min(Range(p)) - 1, Max(Range(p)) - 1>>

Composed == pc \in {"composed", "loop", "lookup"}

----------------------------------------------------------------------------
(* Properties *)

\* C1: with a provider that always returns, no composite address is queried
\* twice, in one run or across runs: every address the provider has answered
\* is in discovered_addrs or no_result_list while a run is going on, and in
\* the saved cache between runs.
C1_QueriedAtMostOnce ==
    /\ \A i, j \in 1..Len(queried) : i # j => queried[i] # queried[j]
    /\ pc \notin {"start", "exited"} =>
         \A a \in Range(queried) :
             a \in DOMAIN discovered_addrs \/ a \in Range(no_result_list)
    /\ pc \in {"start", "exited"} =>
         \A a \in Range(queried) :
             \/ a \in DOMAIN LoadCache(disk).discovered_addrs
             \/ a \in Range(LoadCache(disk).no_result_list)

\* a second run evaluates, as its first candidate, an address an earlier run
\* queried
C1_Witness ==
    /\ runs = 2
    /\ pc = "lookup"
    /\ out_rows = <<>>
    /\ attempt_index = 0
    /\ attempted_address \in Range(queried)

\* C2: the candidates are sorted by the smallest place of their snippets, then
\* by the largest; every candidate with the first snippet comes before every
\* candidate without it; [a, b, c] with depth 3 starts "a", "a, b", "a, c".
C2_SortedByPlaces ==
    Composed =>
        /\ \A i, j \in 1..Len(composed_positions) :
               i < j => ~KeyLess(PlaceKey(composed_positions[j]),
                                 PlaceKey(composed_positions[i]))
        /\ \A i, j \in 1..Len(composed_positions) :
               (1 \in Range(composed_positions[i])
                  /\ 1 \notin Range(composed_positions[j])) => i < j
        /\ (addr_snips = <<<<"a">>, <<"b">>, <<"c">>>> /\ search_depth = 3) =>
               SubSeq(composed_addresses, 1, 3)
                   = << <<"a">>, <<"a", ",", " ", "b">>, <<"a", ",", " ", "c">> >>

\* C3: the candidates are exactly the joins, in the original order, of the
\* non-empty sets of at most min(D, N) places, one candidate per set; a depth
\* above N gives what depth N gives.
C3_OnePerSubset ==
    Composed =>
        LET N == Len(addr_snips)
            D == IF search_depth < N THEN search_depth ELSE N
        IN  /\ Len(composed_addresses) = Cardinality(Subsets(N, D))
            /\ Len(composed_positions) = Len(composed_addresses)
            /\ \A i \in 1..Len(composed_positions) :
                   /\ IsIncreasing(composed_positions[i])
                   /\ Range(composed_positions[i]) \in Subsets(N, D)
                   /\ composed_addresses[i]
                          = join(Sep, SnipsAt(addr_snips, composed_positions[i]))
            /\ \A P \in Subsets(N, D) :
                   Cardinality({i \in 1..Len(composed_positions) :
                                    Range(composed_positions[i]) = P}) = 1
            /\ composed_addresses = ComposedAddresses(addr_snips, D)

\* three snippets with depth 2: the six candidates of one or two snippets
C3_Witness ==
    /\ pc = "composed"
    /\ addr_snips = <<<<"a">>, <<"b">>, <<"c">>>>
    /\ search_depth = 2
    /\ Len(composed_addresses) = 6
    /\ composed_addresses[6] = <<"c">>

\* C4: a row with no usable snippet makes _geolocate return (nan, nan, a
\* warning with "Search Failed!;") without a provider call and without
\* raising: once such a row has been handled, nothing was raised and the row
\* was written with lat "-" and lng "-".
C4_NoSnippetsReturnsFailure ==
    (row # <<>> /\ HasColumns(row) /\ addr_snips = <<>> /\ pc \in {"rows", "exited"}) =>
        /\ raised # "UnboundLocalError"
        /\ ret # <<>>
        /\ isnan(ret[1]) /\ isnan(ret[2])
        /\ SearchFailed \in Range(ret[3])
        /\ out_rows # <<>>
        /\ Last(out_rows).row = row
        /\ Last(out_rows).lat = "-"

\* C5: the fallback warning occurs at most once in the warning of a row.
C5_FallbackAtMostOnce ==
    /\ Count(warnings, FallbackWarning) <= 1
    /\ ret # <<>> => Count(ret[3], FallbackWarning) <= 1

\* C6: whenever a candidate without the row's first snippet is evaluated, the
\* fallback warning is already in the row's warning.
C6_FallbackWithoutFirstSnippet ==
    (pc = "lookup" /\ 1 \notin Range(composed_positions[attempt_index + 1])) =>
        FallbackWarning \in Range(warnings)

\* C7: a candidate that is in no_result_list is skipped: no provider call, no
\* text added to the warning, the cache as it was, and the next candidate of
\* the same sequence is the one evaluated next.
C7_KnownFailureSkipped ==
    [][(pc = "lookup" /\ attempted_address \in Range(no_result_list)) =>
          /\ queried' = queried
          /\ warnings' = warnings
          /\ discovered_addrs' = discovered_addrs
          /\ no_result_list' = no_result_list
          /\ composed_addresses' = composed_addresses
          /\ attempt_index' = attempt_index + 1
          /\ pc' = "loop"]_vars

\* the candidate just passed is a known failure the provider was not asked
\* about in any run, and the row's warning does not name it
C7_Witness ==
    /\ pc = "loop"
    /\ attempt_index >= 1
    /\ composed_addresses[attempt_index] \in Range(no_result_list)
    /\ NoResultWarning(composed_addresses[attempt_index]) \notin Range(warnings)
    /\ Len(queried) = 1

\* C8: when the candidates of a row with at least one snippet are used up,
\* _geolocate returns (nan, nan, a warning ending in "Search Failed!;") and
\* every candidate of the row is in no_result_list.
C8_ExhaustedReturnsUnknown ==
    (pc \in {"rows", "exited"} /\ composed_addresses # <<>>
        /\ attempt_index = Len(composed_addresses)) =>
        /\ ret # <<>>
        /\ isnan(ret[1]) /\ isnan(ret[2])
        /\ ret[3] # <<>> /\ Last(ret[3]) = SearchFailed
        /\ \A c \in Range(composed_addresses) : c \in Range(no_result_list)

\* a row of three snippets ran through all seven candidates
C8_Witness ==
    /\ pc = "rows"
    /\ Len(composed_addresses) = 7
    /\ attempt_index = 7
    /\ isnan(ret[1])

\* C9: no composite address is both a key of discovered_addrs and a member of
\* no_result_list, in memory or in the saved cache.
C9_CachesDisjoint ==
    /\ DOMAIN discovered_addrs \cap Range(no_result_list) = {}
    /\ DOMAIN LoadCache(disk).discovered_addrs
           \cap Range(LoadCache(disk).no_result_list) = {}

\* a second run, started from a saved cache, holds successes and failures
C9_Witness ==
    /\ runs = 2
    /\ rows_read = 2
    /\ pc = "rows"
    /\ discovered_addrs # EmptyDict
    /\ Len(no_result_list) >= 2

\* C10: the cache file is written exactly once per run, when the run ends,
\* however it ends, and then holds the two in-memory maps.
C10_SavedOnceAtExit ==
    /\ pc = "exited" =>
         /\ saves = 1
         /\ disk.kind = "json"
         /\ disk.data["discovered_addrs"] = discovered_addrs
         /\ disk.data["no_result_list"] = no_result_list
    /\ pc # "exited" => saves = 0

\* the provider raised after a success and a failure had been recorded
C10_Witness ==
    /\ pc = "exited"
    /\ raised = "ProviderError"
    /\ discovered_addrs # EmptyDict
    /\ no_result_list # <<>>
    /\ saves = 1

\* C11: when every row read has the configured columns and the provider always
\* returns, each row read has exactly one output row, in input order, nothing
\* is raised, and an unresolved row is written with lat "-", lng "-" and a
\* non-empty warning.
C11_EveryRowWritten ==
    (\A k \in 1..Len(in_rows) : HasColumns(in_rows[k])) =>
        /\ raised = "none"
        /\ pc \in {"rows", "exited"} => Len(out_rows) = Len(in_rows)
        /\ pc \in {"loop", "lookup"} => Len(out_rows) = Len(in_rows) - 1
        /\ \A k \in 1..Len(out_rows) :
               /\ k <= Len(in_rows) /\ out_rows[k].row = in_rows[k]
               /\ out_rows[k].lat = "-" =>
                      out_rows[k].lng = "-" /\ out_rows[k].warnings # <<>>

\* C12: while a snippet list that _geolocate was called with before is resolved
\* again, in the same run or a later one, the provider is not called, nothing
\* is raised, and the call returns the coordinates (or the unknown result) of
\* the first call.
C12_SecondResolutionSame ==
    [][(pc \in {"loop", "lookup"} /\ addr_snips \in DOMAIN first_ret) =>
          /\ queried' = queried
          /\ raised' = "none"
          /\ pc' = "rows" => <<ret'[1], ret'[2]>> = first_ret[addr_snips]]_vars

----------------------------------------------------------------------------
(* Loading alone: runs over an empty input, from any cache file *)

UnreadableFile == [kind |-> "unreadable"]

\* a file that is not JSON
GarbageFile == [kind |-> "garbage"]

SomeDicts ==
    {EmptyDict,
     DictSet(EmptyDict, <<"a">>, <<"48.8566", "2.3522">>),
     DictSet(EmptyDict, <<"x">>, <<"40.7128", "-74.006">>)}

SomeLists == {<<>>, << <<"b">> >>, << <<"c">>, <<"c">> >>}

CacheFiles ==
    {MissingFile, UnreadableFile, GarbageFile, [kind |-> "json", data |-> EmptyDict]}
        \cup {JsonDump(d, n) : d \in SomeDicts, n \in SomeLists}
        \cup {[kind |-> "json", data |-> [discovered_addrs |-> d]] : d \in SomeDicts}
        \cup {[kind |-> "json", data |-> [no_result_list |-> n]] : n \in SomeLists}

InitLoad ==
    /\ disk \in CacheFiles
    /\ discovered_addrs = EmptyDict
    /\ no_result_list = <<>>
    /\ search_depth \in 1..MaxDepth
    /\ pc = "start"
    /\ row = <<>>
    /\ addr_snips = <<>>
    /\ composed_positions = <<>>
    /\ composed_addresses = <<>>
    /\ attempt_index = 0
    /\ warnings = <<>>
    /\ ret = <<>>
    /\ out_rows = <<>>
    /\ raised = "none"
    /\ saves = 0
    /\ queried = <<>>
    /\ runs = 0
    /\ rows_read = 0
    /\ answers = <<>>
    /\ in_rows = <<>>
    /\ first_ret = EmptyDict
    /\ queried_before = 0

NextLoad ==
    \/ Construct
    \/ EndOfInput

SpecLoad == InitLoad /\ [][NextLoad]_vars

\* C13: loading never raises, and a cache file that is missing, unreadable,
\* not JSON or without either field leaves both maps empty; a file with both
\* fields is loaded as it is.
C13_LoadFailureGivesEmptyMaps ==
    (pc = "rows" /\ saves = 0) =>
        /\ raised = "none"
        /\ IF /\ disk.kind = "json"
              /\ {"discovered_addrs", "no_result_list"} \subseteq DOMAIN disk.data
           THEN /\ discovered_addrs = disk.data["discovered_addrs"]
                /\ no_result_list = disk.data["no_result_list"]
           ELSE /\ discovered_addrs = EmptyDict
                /\ no_result_list = <<>>

\* a file that holds resolved addresses but no no_result_list was loaded
C13_Witness ==
    /\ pc = "rows"
    /\ disk.kind = "json"
    /\ DOMAIN disk.data = {"discovered_addrs"}
    /\ disk.data["discovered_addrs"] # EmptyDict
    /\ discovered_addrs = EmptyDict
    /\ no_result_list = <<>>

----------------------------------------------------------------------------
(* Properties of the resolution loop *)

IsNoResult(piece) == piece.fmt = "No result found for '{}'; "

\* the "No result found" pieces of a warning, in order
NoResultPieces(w) == SelectSeq(w, IsNoResult)

\* the step is a provider call that was answered
Answered == Len(queried') = Len(queried) + 1

\* C14: a candidate that is a key of discovered_addrs ends the call with its
\* coordinates and the warning so far: no provider call, no later candidate,
\* both maps as they were.
C14_CacheHitReturns ==
    [][(pc = "lookup" /\ attempted_address \in DOMAIN discovered_addrs) =>
          /\ ret' = <<discovered_addrs[attempted_address][1],
                      discovered_addrs[attempted_address][2], warnings>>
          /\ queried' = queried
          /\ raised' = "none"
          /\ discovered_addrs' = discovered_addrs
          /\ no_result_list' = no_result_list
          /\ attempt_index' = attempt_index
          /\ pc' = "rows"]_vars

\* the second row of a run skipped a known failure and then hit the cache
C14_Witness ==
    /\ pc = "rows"
    /\ Len(out_rows) = 2
    /\ Len(queried) = 2
    /\ attempt_index = 1
    /\ ~isnan(ret[1])
    /\ out_rows[1].lat = out_rows[2].lat

\* C15: a non-empty answer for a candidate stores the first result's (lat,
\* lng) under the candidate, returns those coordinates with the warning so
\* far, evaluates no further candidate and leaves no_result_list alone.
C15_FoundIsRecorded ==
    [][(Answered /\ Last(answers') # <<>>) =>
          LET location == Last(answers')[1]
          IN  /\ pc = "lookup"
              /\ Last(queried') = attempted_address
              /\ attempted_address \notin DOMAIN discovered_addrs
              /\ DOMAIN discovered_addrs'
                     = DOMAIN discovered_addrs \cup {attempted_address}
              /\ discovered_addrs'[attempted_address]
                     = <<location.lat, location.lng>>
              /\ \A a \in DOMAIN discovered_addrs :
                     discovered_addrs'[a] = discovered_addrs[a]
              /\ ret' = <<location.lat, location.lng, warnings>>
              /\ no_result_list' = no_result_list
              /\ attempted_address \notin Range(no_result_list')
              /\ attempt_index' = attempt_index
              /\ pc' = "rows"]_vars

\* the provider returned two results and the first one was taken
C15_Witness ==
    /\ pc = "rows"
    /\ answers # <<>>
    /\ Last(answers) = <<Location2, Location1>>
    /\ Last(queried) \in DOMAIN discovered_addrs
    /\ discovered_addrs[Last(queried)] = <<Location2.lat, Location2.lng>>
    /\ ret[1] = Location2.lat

\* C16: every empty answer appends "No result found for '<candidate>'; " for
\* the candidate asked about, which the warning did not hold yet, and puts the
\* candidate in no_result_list before the next candidate is looked at; no
\* other step of the row adds or drops such a piece, and the warning returned
\* holds the pieces the row collected, in that order.
C16_NoResultWarnedOnce ==
    [][/\ (Answered /\ Last(answers') = <<>>) =>
              /\ NoResultWarning(attempted_address) \notin Range(warnings)
              /\ warnings' = Append(warnings, NoResultWarning(attempted_address))
              /\ attempted_address \in Range(no_result_list')
              /\ attempt_index' = attempt_index + 1
              /\ pc' = "loop"
       /\ (pc \in {"loop", "lookup"} /\ ~(Answered /\ Last(answers') = <<>>)) =>
              NoResultPieces(warnings') = NoResultPieces(warnings)
       /\ (pc \in {"loop", "lookup"} /\ pc' = "rows") =>
              NoResultPieces(ret'[3]) = NoResultPieces(warnings)]_vars

\* two candidates got empty answers and the third was found
C16_Witness ==
    /\ pc = "rows"
    /\ ret # <<>>
    /\ ~isnan(ret[1])
    /\ attempt_index = 2
    /\ NoResultPieces(ret[3])
           = <<NoResultWarning(composed_addresses[1]),
               NoResultWarning(composed_addresses[2])>>

\* the snippet contains the separator ", "
HasSep(t) == \E i \in 1..(Len(t) - 1) : t[i] = "," /\ t[i + 1] = " "

NoDuplicates(s) == \A i, j \in 1..Len(s) : i # j => s[i] # s[j]

\* C17: the candidate sequence never holds the same composite address twice.
C17_NoDuplicateCandidates == Composed => NoDuplicates(composed_addresses)

\* C17, amended: it never does when the snippets are pairwise different and
\* none of them contains ", ".
C17_DistinctSnippetsDistinctCandidates ==
    (Composed /\ NoDuplicates(addr_snips)
        /\ \A k \in 1..Len(addr_snips) : ~HasSep(addr_snips[k])) =>
        NoDuplicates(composed_addresses)

\* the seven candidates of three different snippets
C17_Witness ==
    /\ pc = "composed"
    /\ addr_snips = <<<<"b">>, <<"c">>, <<"a">>>>
    /\ search_depth = 3
    /\ Len(composed_addresses) = 7

\* C18: every address occurs at most once in no_result_list, in memory and in
\* the saved cache.
C18_NoDuplicateFailures ==
    /\ NoDuplicates(no_result_list)
    /\ NoDuplicates(LoadCache(disk).no_result_list)

\* C18, amended: the loop appends only addresses that are not in
\* no_result_list yet, and the record made when the candidates are used up is
\* of an address already in it: it leaves the set of cached failures,
\* discovered_addrs and the provider alone.
C18_FailureSetInsertion ==
    [][/\ (pc = "lookup" /\ no_result_list' # no_result_list) =>
              /\ attempted_address \notin Range(no_result_list)
              /\ no_result_list' = Append(no_result_list, attempted_address)
       /\ (pc = "loop" /\ composed_addresses # <<>>
              /\ attempt_index = Len(composed_addresses)) =>
              /\ Range(no_result_list') = Range(no_result_list)
              /\ discovered_addrs' = discovered_addrs
              /\ queried' = queried]_vars

\* a row whose only candidate was a known failure was used up without a
\* provider call
C18_Witness ==
    /\ pc = "rows"
    /\ ret # <<>>
    /\ isnan(ret[1])
    /\ ret[3] = <<SearchFailed>>
    /\ Len(composed_addresses) = 1
    /\ Count(no_result_list, composed_addresses[1]) >= 2

\* the addresses the provider answered with an empty list in this run
EmptyAnswersOfRun ==
    {queried[i] : i \in {k \in 1..Len(queried) :
                            k > queried_before /\ answers[k] = <<>>}}

\* C19: every entry that no_result_list has got during the run, beyond what
\* was loaded, is an address the provider was asked about in this run and
\* answered with an empty list; nothing loaded was removed.
C19_AppendedWereQueried ==
    (pc \in {"rows", "loop", "lookup"}) =>
        LET loaded == LoadCache(disk).no_result_list
        IN  /\ Len(no_result_list) >= Len(loaded)
            /\ SubSeq(no_result_list, 1, Len(loaded)) = loaded
            /\ \A k \in (Len(loaded) + 1)..Len(no_result_list) :
                   no_result_list[k] \in EmptyAnswersOfRun

\* C19, amended: during a run no key leaves discovered_addrs and no stored coordinate
\* changes, no_result_list only gets longer, and an address that becomes a
\* member of no_result_list is the one the provider was just asked about and
\* answered with an empty list.
C19_CacheOnlyGrows ==
    [][(pc \in {"rows", "loop", "lookup"}) =>
          /\ \A a \in DOMAIN discovered_addrs :
                 /\ a \in DOMAIN discovered_addrs'
                 /\ discovered_addrs'[a] = discovered_addrs[a]
          /\ Len(no_result_list') >= Len(no_result_list)
          /\ SubSeq(no_result_list', 1, Len(no_result_list)) = no_result_list
          /\ (\A a \in Range(no_result_list') \ Range(no_result_list) :
                 Answered /\ Last(answers') = <<>> /\ Last(queried') = a)]_vars

\* a second run added a success and a failure to the cache it loaded
C19_Witness ==
    /\ runs = 2
    /\ pc = "rows"
    /\ DOMAIN discovered_addrs # DOMAIN LoadCache(disk).discovered_addrs
    /\ LoadCache(disk).no_result_list # <<>>
    /\ Range(no_result_list) # Range(LoadCache(disk).no_result_list)

\* C20: when _geolocate has returned coordinates from the candidate at index
\* i, every candidate before it is in no_result_list and the candidate is in
\* discovered_addrs with the coordinates returned.
C20_ResultFromFirstUsable ==
    (pc \in {"rows", "exited"} /\ raised # "ProviderError" /\ ret # <<>>
        /\ attempt_index < Len(composed_addresses)) =>
        /\ ~isnan(ret[1]) /\ ~isnan(ret[2])
        /\ \A j \in 1..attempt_index :
               composed_addresses[j] \in Range(no_result_list)
        /\ attempted_address \in DOMAIN discovered_addrs
        /\ discovered_addrs[attempted_address] = <<ret[1], ret[2]>>

\* the third candidate of a row gave the coordinates
C20_Witness ==
    /\ pc = "rows"
    /\ ret # <<>>
    /\ ~isnan(ret[1])
    /\ attempt_index = 2
    /\ Len(composed_addresses) >= 3

====
